---- MODULE Spec2Model ----
(***************************************************************************)
(* Model of demos/8_nlp_defend/main.py: a driver that, for each of three   *)
(* example sentences, asks a remote chat-completion service to correct the *)
(* sentence (_fix_sentence) and classifies the corrected text with a       *)
(* locally loaded 3-class model (predict_sentiment).                       *)
(*                                                                         *)
(* Python values are modelled as tagged records: a str is a sequence of    *)
(* one-character strings, None has the tag "none", a list of str has the   *)
(* tag "list".  Probabilities are fixed-point numbers in units of 1/Scale. *)
(***************************************************************************)
EXTENDS Integers, Sequences, FiniteSets, TLC

\* ------------------------------------------------------------------ bounds

\* Most choices in one reply.
MaxChoices == 1
\* Raw class scores range over 0..MaxLogit.
MaxLogit == 1
\* Longest list of texts a direct caller passes to predict_sentiment.
MaxBatch == 2

\* ------------------------------------------------------------ Python values

Str(s) == [t |-> "str", s |-> s, items |-> <<>>]
None == [t |-> "none", s |-> <<>>, items |-> <<>>]
List(xs) == [t |-> "list", s |-> <<>>, items |-> xs]

\* Python truthiness of an Optional[str]: None and "" are falsy.
Truthy(v) == v.t = "str" /\ Len(v.s) > 0

IsSpace(c) == c = " "
RECURSIVE lstrip(_)
lstrip(s) == IF s = <<>> THEN s
             ELSE IF IsSpace(Head(s)) THEN lstrip(Tail(s)) ELSE s
RECURSIVE rstrip(_)
rstrip(s) == IF s = <<>> THEN s
             ELSE IF IsSpace(s[Len(s)]) THEN rstrip(SubSeq(s, 1, Len(s) - 1)) ELSE s
\* str.strip()
strip(s) == rstrip(lstrip(s))

\* Iterating a str yields its characters, each a str of length one;
\* iterating a list yields its items.
Iter(v) == IF v.t = "str" THEN [k \in 1..Len(v.s) |-> <<v.s[k]>>] ELSE v.items

Min(a, b) == IF a <= b THEN a ELSE b

\* ------------------------------------------------------- the remote service

\* What openai.chat.completions.create can do: raise, or return a reply whose
\* choices is None or a list of choices; a choice's message may be missing,
\* and a message's content is None or a str.
\* The texts a reply can carry: empty, whitespace only, and a sentence
\* wrapped in whitespace.
ReplyTexts == {<<>>, <<" ">>, <<" ", "a", "b", " ">>}
Contents == {None} \cup {Str(s) : s \in ReplyTexts}
Choices == [hasMessage : {FALSE}, content : {None}]
           \cup [hasMessage : {TRUE}, content : Contents]
ChoiceLists == UNION {[1..k -> Choices] : k \in 0..MaxChoices}
Responses == [raised : {TRUE}, choicesNone : {FALSE}, choices : {<<>>}]
             \cup [raised : {FALSE}, choicesNone : {TRUE}, choices : {<<>>}]
             \cup [raised : {FALSE}, choicesNone : {FALSE}, choices : ChoiceLists]

\* Outcome of a Python call: a returned value, or an exception.
Return(v) == [exc |-> FALSE, val |-> v]
Raise == [exc |-> TRUE, val |-> None]

\* The body of the try block of _fix_sentence.
FixTryBody(resp) ==
    IF resp.raised THEN Raise
    ELSE LET hasChoice == ~resp.choicesNone /\ Len(resp.choices) > 0
             choice == resp.choices[1]
         IN IF ~hasChoice THEN Return(Str(strip(<<>>)))
            ELSE IF ~choice.hasMessage THEN Raise
            ELSE IF Truthy(choice.content)
                 THEN Return(Str(strip(choice.content.s)))
                 ELSE Return(Str(strip(<<>>)))

\* Faulty variant: the except clause returns None.
FixExceptNone(context, body) == IF body.exc THEN Return(None) ELSE body
\* Faulty variant: no except clause, the exception leaves the function.
FixExceptMissing(context, body) == body
\* Faulty variant: the except clause falls back to the uncorrected sentence.
FixExceptOriginal(context, body) == IF body.exc THEN Return(Str(context)) ELSE body
\* except Exception: return ""
FixExcept(context, body) == IF body.exc THEN Return(Str(<<>>)) ELSE body

\* Faulty variant: a failed request is sent a second time.
CreateCallsRetry(resp) == IF resp.raised THEN 2 ELSE 1
\* Number of chat-completion requests one invocation issues.
CreateCalls(resp) == 1

\* _fix_sentence(context) when the service answers resp.
_fix_sentence(context, resp) ==
    LET r == FixExcept(context, FixTryBody(resp))
    IN [exc |-> r.exc, val |-> r.val, requests |-> CreateCalls(resp)]

\* ------------------------------------------------------ the sentiment stage

\* Number of classes of the model head, the size of LABEL_MAPPING.
NumLabels == 3
LABEL_MAPPING == [k \in 0..(NumLabels - 1) |->
                    IF k = 0 THEN "Negative" ELSE IF k = 1 THEN "Neutral" ELSE "Positive"]
Labels == {LABEL_MAPPING[k] : k \in DOMAIN LABEL_MAPPING}

\* LABEL_MAPPING.get(pred, f"Label-{pred}")
LabelOf(pred) ==
    IF pred \in DOMAIN LABEL_MAPPING THEN LABEL_MAPPING[pred]
    ELSE "Label-" \o ToString(pred)

\* Fixed-point resolution of a probability: seven decimal digits, the
\* precision of a 32-bit float.
Scale == 10 ^ 7
\* One row of raw class scores.
LogitRows == [1..NumLabels -> 0..MaxLogit]
\* The batches of scores the forward pass can produce for n sequences; a call
\* that fails produces none, written as a batch of zeros that is never read.
LogitBatches(n, fail) ==
    IF fail = "none" THEN [1..n -> LogitRows]
    ELSE {[b \in 1..n |-> [k \in 1..NumLabels |-> 0]]}
Exp2(x) == 2 ^ x
RECURSIVE SumSeq(_)
SumSeq(xs) == IF xs = <<>> THEN 0 ELSE Head(xs) + SumSeq(Tail(xs))

\* Faulty variant: normalisation over the batch dimension (dim=0).
SoftmaxDim0(logits) ==
    [b \in 1..Len(logits) |->
        [k \in 1..NumLabels |->
            (Exp2(logits[b][k]) * Scale)
                \div SumSeq([c \in 1..Len(logits) |-> Exp2(logits[c][k])])]]
\* F.softmax(outputs.logits, dim=-1): each row normalised over its classes.
Softmax(logits) ==
    [b \in 1..Len(logits) |->
        [k \in 1..NumLabels |->
            (Exp2(logits[b][k]) * Scale)
                \div SumSeq([c \in 1..NumLabels |-> Exp2(logits[b][c])])]]

\* Faulty variant: the index of the smallest entry.
ArgminRow(row) ==
    CHOOSE k \in 0..(Len(row) - 1) :
        /\ \A j \in 0..(Len(row) - 1) : row[j + 1] >= row[k + 1]
        /\ \A j \in 0..(k - 1) : row[j + 1] > row[k + 1]
\* numpy argmax of one row: the first index holding the maximum, from 0.
ArgmaxRow(row) ==
    CHOOSE k \in 0..(Len(row) - 1) :
        /\ \A j \in 0..(Len(row) - 1) : row[j + 1] <= row[k + 1]
        /\ \A j \in 0..(k - 1) : row[j + 1] < row[k + 1]

\* The model object: how often it was loaded, where its parameters live,
\* whether it is in training mode, and the version of its weights.
ModelAfterLoad == [loaded |-> 1, placement |-> "cpu", training |-> FALSE, weights |-> 0]
Devices == {"cpu", "cuda"}

\* model.to(device)
ModelTo(mdl, dev) == [mdl EXCEPT !.placement = dev]
\* Faulty variant: model.train() in place of model.eval().
ModelTrain(mdl) == [mdl EXCEPT !.training = TRUE]
\* model.eval()
ModelEval(mdl) == [mdl EXCEPT !.training = FALSE]

\* Where predict_sentiment can fail: the tokenizer, moving the inputs, moving
\* the model (before anything moved, or with part of it moved), the forward pass.
FailPoints == {"none", "tokenizer", "inputs_to", "model_to", "model_to_partial", "forward"}

\* tokenizer(texts, ...): a str is one sequence, a list one sequence per item;
\* anything else is rejected.
TokenizerAccepts(texts) == texts.t \in {"str", "list"}
BatchOf(texts) == IF texts.t = "str" THEN 1 ELSE Len(texts.items)

\* predict_sentiment(texts, tokenizer, model, device) when the model computes
\* logits and the environment fails at fail.
predict_sentiment(texts, logits, fail, mdl, dev) ==
    IF fail = "tokenizer" \/ ~TokenizerAccepts(texts) \/ fail = "inputs_to"
    THEN [exc |-> TRUE, results |-> <<>>, model |-> mdl]
    ELSE IF fail = "model_to"
    THEN [exc |-> TRUE, results |-> <<>>, model |-> mdl]
    ELSE IF fail = "model_to_partial"
    THEN [exc |-> TRUE, results |-> <<>>,
          model |-> IF mdl.placement = dev THEN mdl ELSE ModelTo(mdl, "partial")]
    ELSE LET moved == ModelEval(ModelTo(mdl, dev))
         IN IF fail = "forward"
            THEN [exc |-> TRUE, results |-> <<>>, model |-> moved]
            ELSE LET probs == Softmax(logits)
                     predictions == [b \in 1..Len(probs) |-> ArgmaxRow(probs[b])]
                     elems == Iter(texts)
                     n == Min(Len(elems), Min(Len(predictions), Len(probs)))
                 IN [exc |-> FALSE,
                     results |-> [b \in 1..n |->
                        [text |-> elems[b],
                         label |-> LabelOf(predictions[b]),
                         prob_mapping |-> [Negative |-> probs[b][1],
                                           Neutral |-> probs[b][2],
                                           Positive |-> probs[b][3]]]],
                     model |-> moved]

\* ------------------------------------------------------------------ driver

\* The three example sentences, each abbreviated to the words that tell it
\* from the others ("best ... I was", "bset ... I was", "bset ... me were").
texts == << <<"b", "e", "s", "t", " ", "I">>,
            <<"b", "s", "e", "t", " ", "I">>,
            <<"b", "s", "e", "t", " ", "m", "e">> >>

VARIABLES
    pc,             \* the driver's position
    i,              \* sentences finished so far (enumerate's index)
    text,           \* the variable text, bound by both loops
    fixed_text,     \* the variable fixed_text
    results,        \* the variable results
    out,            \* lines written to standard output
    requests,       \* chat-completion requests issued so far
    device,         \* the device chosen at startup
    model,          \* the shared model object
    tokenizerLoads, \* how often the tokenizer was loaded
    fixLog,         \* one entry per finished _fix_sentence call
    predictLog,     \* one entry per predict_sentiment call
    error           \* which call's exception ended the process

vars == <<pc, i, text, fixed_text, results, out, requests, device, model,
          tokenizerLoads, fixLog, predictLog, error>>

\* One print call.
Line(kind, txt, label, prob) == [kind |-> kind, text |-> txt, label |-> label, prob |-> prob]
Blank == Line("blank", <<>>, "", 0)

\* str() of a value inside an f-string.
Format(v) == IF v.t = "none" THEN <<"N", "o", "n", "e">> ELSE v.s
\* f"{probability:.4f}": the probability rounded to a multiple of 1/10000.
Format4(p) == (p + (Scale \div 10000) \div 2) \div (Scale \div 10000)

\* The lines the inner loop prints for the results.
RECURSIVE ResultLines(_)
ResultLines(rs) ==
    IF rs = <<>> THEN <<>>
    ELSE << Line("Text", Head(rs).text, "", 0),
            Line("Predicted Sentiment", <<>>, Head(rs).label, 0),
            Line("prob", <<>>, "Negative", Format4(Head(rs).prob_mapping.Negative)),
            Line("prob", <<>>, "Neutral", Format4(Head(rs).prob_mapping.Neutral)),
            Line("prob", <<>>, "Positive", Format4(Head(rs).prob_mapping.Positive)),
            Blank >> \o ResultLines(Tail(rs))

\* Faulty variant: the call is wrapped in a handler that carries on with no results.
AfterPredictSwallow(r) == "display"
\* The driver calls predict_sentiment outside any try block: an exception
\* ends the process, a return is followed by the display of the results.
AfterPredict(r) == IF r.exc THEN "crashed" ELSE "display"

Init ==
    /\ pc = "loop"
    /\ i = 0
    /\ text = None
    /\ fixed_text = None
    /\ results = <<>>
    /\ device \in Devices
    /\ out = << Line("Using device", <<>>, device, 0) >>
    /\ requests = 0
    /\ model = ModelAfterLoad
    /\ tokenizerLoads = 1
    /\ fixLog = <<>>
    /\ predictLog = <<>>
    /\ error = "none"

\* for i, text in enumerate(texts): print(f"Original Text: {text}")
PrintOriginal ==
    /\ pc = "loop"
    /\ i < Len(texts)
    /\ text' = Str(texts[i + 1])
    /\ out' = Append(out, Line("Original Text", Format(text'), "", 0))
    /\ pc' = "fix"
    /\ UNCHANGED <<i, fixed_text, results, requests, device, model,
                   tokenizerLoads, fixLog, predictLog, error>>

\* fixed_text = _fix_sentence(text); print(f"Fixed Text: {fixed_text}")
FixSentence ==
    /\ pc = "fix"
    /\ \E resp \in Responses :
        LET r == _fix_sentence(text.s, resp)
        IN /\ requests' = requests + r.requests
           /\ fixLog' = Append(fixLog, [arg |-> text, raised |-> resp.raised,
                                        exc |-> r.exc, ret |-> r.val])
           /\ fixed_text' = IF r.exc THEN fixed_text ELSE r.val
           /\ out' = IF r.exc THEN out
                     ELSE Append(out, Line("Fixed Text", Format(r.val), "", 0))
           /\ pc' = IF r.exc THEN "crashed" ELSE "predict"
           /\ error' = IF r.exc THEN "_fix_sentence" ELSE error
    /\ UNCHANGED <<i, text, results, device, model, tokenizerLoads, predictLog>>

\* results = predict_sentiment(fixed_text, tokenizer, model, device), the
\* display of the results, and the end of the iteration; after the last
\* sentence the script ends.
PredictSentiment ==
    /\ pc = "predict"
    /\ \E fail \in FailPoints :
       \E logits \in LogitBatches(BatchOf(fixed_text), fail) :
        LET r == predict_sentiment(fixed_text, logits, fail, model, device)
            next == AfterPredict(r)
        IN /\ model' = r.model
           /\ predictLog' = Append(predictLog, [arg |-> fixed_text,
                                                failed |-> fail # "none",
                                                exc |-> r.exc])
           /\ IF next = "crashed"
              THEN /\ pc' = "crashed"
                   /\ error' = "predict_sentiment"
                   /\ UNCHANGED <<results, out, text, i>>
              ELSE /\ results' = r.results
                   /\ out' = out \o <<Blank>> \o ResultLines(r.results) \o <<Blank>>
                   /\ text' = IF r.results = <<>> THEN text
                              ELSE Str(r.results[Len(r.results)].text)
                   /\ i' = i + 1
                   /\ pc' = IF i + 1 < Len(texts) THEN "loop" ELSE "done"
                   /\ UNCHANGED error
    /\ UNCHANGED <<fixed_text, requests, device, tokenizerLoads, fixLog>>

Next ==
    \/ PrintOriginal
    \/ FixSentence
    \/ PredictSentiment

Spec == Init /\ [][Next]_vars

\* A direct call of predict_sentiment, as its docstring describes it: a list
\* of texts, here the first n example sentences; or one str, as the driver
\* passes it.
PredictInputs ==
    {List(SubSeq(texts, 1, n)) : n \in 1..Min(MaxBatch, Len(texts))}
    \cup {Str(strip(c)) : c \in ReplyTexts}

PredictCall ==
    /\ pc = "loop"
    /\ i = 0
    /\ \E arg \in PredictInputs :
       \E logits \in LogitBatches(BatchOf(arg), "none") :
        LET r == predict_sentiment(arg, logits, "none", model, device)
        IN /\ model' = r.model
           /\ predictLog' = Append(predictLog, [arg |-> arg, failed |-> FALSE,
                                                exc |-> r.exc])
           /\ results' = r.results
    /\ pc' = "returned"
    /\ UNCHANGED <<i, text, fixed_text, out, requests, device, tokenizerLoads,
                   fixLog, error>>

PredictSpec == Init /\ [][PredictCall]_vars

\* ------------------------------------------------------------------ claims

EmptyStr == Str(<<>>)

\* C1: whatever the remote call did (a reply, a raised error, no choices, a
\* choice without message or content), every finished _fix_sentence call
\* returned a str, never None, and no exception left it.
C1_FixReturnsString ==
    /\ \A k \in 1..Len(fixLog) : ~fixLog[k].exc /\ fixLog[k].ret.t = "str"
    /\ error # "_fix_sentence"
    /\ fixed_text.t = "str" \/ fixLog = <<>>

\* C1 witness: a run whose three calls saw a raised error, a reply that held
\* no usable content, and a reply with content.
C1_Witness ==
    /\ Len(fixLog) = Len(texts)
    /\ \E k \in 1..Len(fixLog) : fixLog[k].raised /\ fixLog[k].ret = EmptyStr
    /\ \E k \in 1..Len(fixLog) : ~fixLog[k].raised /\ fixLog[k].ret = EmptyStr
    /\ \E k \in 1..Len(fixLog) : ~fixLog[k].raised /\ Len(fixLog[k].ret.s) > 0

\* C2: when the remote call fails, _fix_sentence returns exactly ""; the
\* predict_sentiment call on that "" then returns without raising (unless the
\* environment fails it) and the driver goes on past that sentence.
C2_FailureGivesEmptyAndContinues ==
    /\ \A k \in 1..Len(fixLog) : fixLog[k].raised => fixLog[k].ret = EmptyStr
    /\ \A k \in 1..Len(predictLog) :
          (fixLog[k].raised /\ ~predictLog[k].failed)
              => /\ predictLog[k].arg = EmptyStr
                 /\ ~predictLog[k].exc
                 /\ i >= k

\* C2 witness: the first remote call failed and the driver has started the
\* second sentence.
C2_Witness ==
    /\ Len(fixLog) >= 1
    /\ fixLog[1].raised
    /\ Len(predictLog) >= 1
    /\ ~predictLog[1].exc
    /\ pc = "fix"
    /\ i = 1

ProbKeys == {"Negative", "Neutral", "Positive"}

\* C3 (as claimed): after the driver's predict_sentiment call returns, the
\* results hold exactly one result for the one text passed, whose first
\* component is that whole text, whose label is set, and whose third
\* component is a mapping with the keys Negative, Neutral and Positive.
C3_OneResultPerText ==
    (pc \in {"loop", "done"} /\ i >= 1)
        => /\ Len(results) = 1
           /\ results[1].text = fixed_text.s
           /\ results[1].label \in Labels
           /\ DOMAIN results[1].prob_mapping = ProbKeys

MaxOf3(m) ==
    LET a == m.Negative
        b == m.Neutral
        c == m.Positive
    IN IF a >= b /\ a >= c THEN a ELSE IF b >= c THEN b ELSE c

\* C4: every result's label is one of Negative, Neutral, Positive, never the
\* fallback "Label-<index>", and its entry in the probability mapping is the
\* largest of the three.
C4_LabelIsArgmax ==
    \A k \in 1..Len(results) :
        /\ results[k].label \in Labels
        /\ results[k].prob_mapping[results[k].label] = MaxOf3(results[k].prob_mapping)

\* C4 witness: a call on two texts returned two results with different
\* labels, one of them decided on a tie.
C4_Witness ==
    /\ pc = "returned"
    /\ Len(results) = 2
    /\ results[1].label # results[2].label
    /\ \E k \in 1..2 :
          results[k].prob_mapping.Neutral = results[k].prob_mapping.Positive
          /\ results[k].label = "Neutral"

\* The tolerance of the claim, 1e-4, in fixed-point units.
Tolerance == Scale \div 10000

\* C5: the three probabilities of every result are non-negative and sum to 1
\* within 1e-4.
C5_ProbabilitiesSumToOne ==
    \A k \in 1..Len(results) :
        LET m == results[k].prob_mapping
            total == m.Negative + m.Neutral + m.Positive
        IN /\ m.Negative >= 0 /\ m.Neutral >= 0 /\ m.Positive >= 0
           /\ total - Scale <= Tolerance
           /\ Scale - total <= Tolerance

\* C5 witness: a call on two texts returned, one row of which does not sum to
\* exactly 1 after rounding while the other is skewed to one class.
C5_Witness ==
    /\ pc = "returned"
    /\ Len(results) = 2
    /\ LET m == results[1].prob_mapping
       IN m.Negative + m.Neutral + m.Positive # Scale
    /\ results[2].prob_mapping.Positive > results[2].prob_mapping.Negative

\* The lines of standard output that carry the pipeline's data.
DataKinds == {"Original Text", "Fixed Text", "Predicted Sentiment", "prob"}
IsData(l) == l.kind \in DataKinds
DataLines == SelectSeq(out, IsData)
LinesPerSentence == NumLabels + 3

\* C6 (as claimed): in a run that ends with no stage raising, the output holds,
\* for each sentence in list order, the original sentence, the corrected text
\* returned for it (possibly empty), one predicted label and the three
\* probabilities; and predict_sentiment was given that corrected text.
C6_IterationOutput ==
    (pc = "done")
        => /\ Len(DataLines) = LinesPerSentence * Len(texts)
           /\ \A k \in 1..Len(texts) :
                LET base == LinesPerSentence * (k - 1)
                IN /\ DataLines[base + 1].kind = "Original Text"
                   /\ DataLines[base + 1].text = texts[k]
                   /\ DataLines[base + 2].kind = "Fixed Text"
                   /\ DataLines[base + 2].text = fixLog[k].ret.s
                   /\ predictLog[k].arg = fixLog[k].ret
                   /\ DataLines[base + 3].kind = "Predicted Sentiment"
                   /\ DataLines[base + 3].label \in Labels
                   /\ \A j \in 4..6 : DataLines[base + j].kind = "prob"
                   /\ DataLines[base + 4].label = "Negative"
                   /\ DataLines[base + 5].label = "Neutral"
                   /\ DataLines[base + 6].label = "Positive"

\* C7: every _fix_sentence call issues exactly one request, failed or not, so
\* the requests issued equal the calls made, at most one per sentence, and
\* three when the run is over.
C7_OneRequestPerCall ==
    /\ requests = Len(fixLog)
    /\ requests <= Len(texts)
    /\ pc \in {"fix"} => requests = i
    /\ pc = "done" => requests = Len(texts)

\* C7 witness: a finished run in which a request failed and one succeeded.
C7_Witness ==
    /\ pc = "done"
    /\ requests = Len(texts)
    /\ \E k \in 1..Len(fixLog) : fixLog[k].raised
    /\ \E k \in 1..Len(fixLog) : ~fixLog[k].raised

NumKind(kind) == Len(SelectSeq(out, LAMBDA l : l.kind = kind))

\* C8: when predict_sentiment raises for sentence k, that call is the last
\* one, the process is in its error state, the last line written is the
\* corrected text of sentence k (no result for it), and no later sentence was
\* printed, corrected (no further request) or classified.
C8_PredictFailureIsFatal ==
    \A k \in 1..Len(predictLog) :
        predictLog[k].exc
            => /\ k = Len(predictLog)
               /\ pc = "crashed"
               /\ error = "predict_sentiment"
               /\ i = k - 1
               /\ Len(fixLog) = k
               /\ requests = k
               /\ out[Len(out)].kind = "Fixed Text"
               /\ NumKind("Original Text") = k
               /\ NumKind("Fixed Text") = k
               /\ NumKind("Predicted Sentiment") <= k - 1

\* C8 witness: the second sentence's classification failed after the model
\* was moved to the accelerator by the first.
C8_Witness ==
    /\ pc = "crashed"
    /\ Len(predictLog) = 2
    /\ predictLog[2].exc
    /\ predictLog[2].failed
    /\ model.placement = "cuda"

\* C9 (as claimed): no step changes the shared model, the tokenizer or the
\* chosen device after load and startup.
C9_ModelNeverMutated ==
    [][model' = model /\ device' = device /\ tokenizerLoads' = tokenizerLoads]_vars

\* C9 (amended): model and tokenizer are loaded once; the chosen device, the
\* weights and the evaluation mode never change; the model's placement changes
\* only inside predict_sentiment, away from the CPU it was loaded on and
\* toward the chosen device, and equals the chosen device once a call returned.
C9_OnlyPlacementChanges ==
    [][ /\ device' = device
        /\ tokenizerLoads' = tokenizerLoads
        /\ model'.loaded = model.loaded
        /\ model'.weights = model.weights
        /\ model'.training = model.training
        /\ model'.placement # model.placement
              => /\ pc = "predict"
                 /\ model.placement = "cpu"
                 /\ model'.placement \in {device, "partial"}
        /\ (pc = "predict" /\ pc' # "crashed") => model'.placement = device
      ]_vars

\* C9 witness: on an accelerator, a finished run left the model on it.
C9_Witness ==
    /\ pc = "done"
    /\ device = "cuda"
    /\ model.placement = "cuda"
    /\ model.training = FALSE

\* The driver steps still to be taken, at most.
Rank ==
    IF pc \in {"done", "crashed"} THEN 0
    ELSE 3 * (Len(texts) - i)
         - (IF pc = "loop" THEN 0 ELSE IF pc = "fix" THEN 1 ELSE 2)
EndedByPredictOrDone == pc = "done" \/ (pc = "crashed" /\ error = "predict_sentiment")

\* C10: unless predict_sentiment raises, the driver ends normally whatever
\* the remote calls did: it is never stopped before its end by anything but a
\* predict_sentiment error, every step brings the end nearer, and at the end
\* _fix_sentence was called three times, once per sentence in list order, and
\* predict_sentiment three times, each with what the preceding _fix_sentence
\* call returned.
C10_CorrectionFailuresNeverStop ==
    /\ [](EndedByPredictOrDone \/ ENABLED Next)
    /\ [][Rank' < Rank]_vars
    /\ [](pc = "done"
            => /\ Len(fixLog) = Len(texts)
               /\ \A k \in 1..Len(texts) : fixLog[k].arg = Str(texts[k])
               /\ Len(predictLog) = Len(texts)
               /\ \A k \in 1..Len(texts) :
                    predictLog[k].arg = fixLog[k].ret /\ ~predictLog[k].exc)

\* C10 witness: a run that ended normally although all three remote calls failed.
C10_Witness ==
    /\ pc = "done"
    /\ Len(fixLog) = Len(texts)
    /\ \A k \in 1..Len(fixLog) : fixLog[k].raised

====
